---- MODULE Spec2Model ----
(***************************************************************************)
(* LlvmIrParser (lib/llvm-ir.ts of compiler-explorer): the line scanner,   *)
(* the metadata node parser, the scope resolver and processIr, as a state  *)
(* machine over one parser instance; and SponsorsImpl (lib/sponsors.ts)    *)
(* with makeIconSets and pickTopIcons, over one instance of it.            *)
(*                                                                         *)
(* Strings.  A JavaScript string is modelled as a sequence of tokens, so   *)
(* that the empty string is << >> (falsy) and every other string is        *)
(* truthy.  "!1" is <<"!1">>, "10" is <<"10">>, "dir/example.cpp" is       *)
(* <<"dir", "/", "example.", "cpp">>.                                      *)
(*                                                                         *)
(* Optional values.  null / undefined / a missing property is << >>, a     *)
(* present value v is <<v>>.                                               *)
(*                                                                         *)
(* Lines.  An input line is a record: chars names the concrete text, and   *)
(* the other fields are what the parser's regular expressions see in it:   *)
(*   kind  "blank"     line.trim().length === 0                            *)
(*         "comment"   this.commentOnly matches (leading blanks, then ;)   *)
(*         "dbgcall"   this.llvmDebug matches (call void @llvm.dbg.)       *)
(*         "meta"      metaNodeRe matches (id, mtype, opts are its groups) *)
(*         "directive" isLineLlvmDirective holds, metaNodeRe does not      *)
(*         "code"      none of the above                                   *)
(*   dbg   the capture of this.debugReference, "" when it does not match   *)
(*   opts  the key/value pairs metaNodeOptionsRe finds in group 3, in      *)
(*         order; val is the raw capture, a quoted value between two       *)
(*         quote tokens                                                    *)
(*   dm    whether the demangler has rewritten the text                    *)
(***************************************************************************)
EXTENDS Integers, Sequences, FiniteSets, TLC

\* Longest input, in lines.
MaxLen == 4
\* Longest level list a SponsorsImpl is built from.
MaxLevels == 3
\* Number of pickTopIcons calls made on it.
MaxPicks == 5
\* Number of processIr calls made on the one parser instance.
NumCalls == 2
\* Depth of the JavaScript call stack, in frames of a resolver.
MaxStack == 6

VARIABLES
    maxIrLines,     \* this.maxIrLines
    lastIndex,      \* this.metaNodeOptionsRe.lastIndex, in key/value pairs
    args,           \* per call: the arguments (ir, filters) it is made with
    pc,             \* per call: where the call is
    i,              \* per call: index of the next input line of the scan
    result,         \* per call: const result: IRResultLine[]
    debugInfo,      \* per call: const debugInfo = {}
    prevLineEmpty,  \* per call: let prevLineEmpty
    k,              \* per call: index of the next line of the resolution loop
    origin,         \* per call (history): input index each scanned line came from
    scanned,        \* per call (history): result as the scan left it
    demangled,      \* per call (history): arguments irDemangler.process was given
    ret,            \* per call: the asm of the value the promise resolves to
    probe,          \* line a direct parseMetaNode call is made with
    probeNode       \* (history) what the direct parseMetaNode calls returned

\* The SponsorsImpl instance of the same process (lib/sponsors.ts).
VARIABLES
    levels,         \* the levels the constructor is given
    made,           \* "new", "making", "built", or "threw" (the constructor raised)
    icons,          \* this._icons
    iconSets,       \* result of makeIconSets, then this._iconSets
    appearances,    \* sponsorAppearanceCount of makeIconSets, by index in icons
    nextSet,        \* this._nextSet
    picks           \* (history) what the pickTopIcons calls returned, in order

parserVars == <<maxIrLines, lastIndex, args, pc, i, result, debugInfo, prevLineEmpty,
                k, origin, scanned, demangled, ret, probe, probeNode>>
sponsorVars == <<levels, made, icons, iconSets, appearances, nextSet, picks>>

vars == <<maxIrLines, lastIndex, args, pc, i, result, debugInfo, prevLineEmpty,
          k, origin, scanned, demangled, ret, probe, probeNode,
          levels, made, icons, iconSets, appearances, nextSet, picks>>

Calls == 1..NumCalls

None == << >>
Some(v) == <<v>>

\* JavaScript truthiness of a string (or of a missing property).
Truthy(s) == Len(s) > 0

----------------------------------------------------------------------------
(* Input lines *)

Ref(n) == <<n>>

Quote == "\""
Quoted(s) == <<Quote>> \o s \o <<Quote>>

Opt(key, val) == [key |-> key, val |-> val]

Line(chars, kind, dbg, id, mtype, opts) ==
    [chars |-> chars, kind |-> kind, dbg |-> dbg, id |-> id, mtype |-> mtype,
     opts |-> opts, dm |-> FALSE]

Plain(chars, kind, dbg) == Line(chars, kind, dbg, << >>, "", << >>)

MetaLine(chars, id, mtype, opts) == Line(chars, "meta", << >>, Ref(id), mtype, opts)

\* The text '' of the line pushed for a run of blank lines.
EmptyText == Plain("", "blank", << >>)
\* The text of the truncation marker.
TruncatedText == Plain("[truncated; too many lines]", "code", << >>)

LEmpty == EmptyText
LSpaces == Plain("  ", "blank", << >>)
LComment == Plain("; ModuleID = 'example.cpp'", "comment", << >>)
LDbgCall == Plain("  call void @llvm.dbg.declare(metadata ptr %1), !dbg !1", "dbgcall", Ref("!1"))
LRet1 == Plain("  ret void, !dbg !1", "code", Ref("!1"))
LRet2 == Plain("  store i32 0, ptr %1, !dbg !2", "code", Ref("!2"))
LCode == Plain("define void @f() {", "code", << >>)
LCommentDbg == Plain("  ; ret void, !dbg !1", "comment", Ref("!1"))
LInline == Plain("  %1 = alloca i32 ; local", "code", << >>)
LInlineDbg == Plain("  ret void, !dbg !1 ; done", "code", Ref("!1"))
LTriple == Plain("target triple = \"x86_64\"", "directive", << >>)
LBlock1 == MetaLine("!1 = !DILexicalBlock(scope: !2, line: 10)", "!1", "LexicalBlock",
                    <<Opt("scope", <<"!2">>), Opt("line", <<"10">>)>>)
LBlockDbg1 == Line("!1 = !DILexicalBlock(line: 5) ; !dbg !2", "meta", Ref("!2"), Ref("!1"),
                   "LexicalBlock", <<Opt("line", <<"5">>)>>)
LFileDbg3 == Line("!3 = !DIFile(filename: \"foo.c\") ; !dbg !1", "meta", Ref("!1"), Ref("!3"),
                  "File", <<Opt("filename", Quoted(<<"foo.c">>))>>)
LSourceDbg == Plain("source_filename = \"a !dbg !1\"", "directive", Ref("!1"))
LSelf1 == MetaLine("!1 = !DILexicalBlock(scope: !1)", "!1", "LexicalBlock",
                   <<Opt("scope", <<"!1">>)>>)
LSub2 == MetaLine("!2 = distinct !DISubprogram(scope: !3)", "!2", "Subprogram",
                  <<Opt("scope", <<"!3">>)>>)
LBack2 == MetaLine("!2 = !DISubprogram(scope: !1)", "!2", "Subprogram",
                   <<Opt("scope", <<"!1">>)>>)
LUnit2 == MetaLine("!2 = !DISubprogram(filename: \"\", file: !3, scope: !4, column: 7)",
                   "!2", "Subprogram",
                   <<Opt("filename", Quoted(<< >>)), Opt("file", <<"!3">>),
                     Opt("scope", <<"!4">>), Opt("column", <<"7">>)>>)
LStdin2 == MetaLine("!2 = !DIFile(filename: \"<stdin>\", file: !3)", "!2", "File",
                    <<Opt("filename", Quoted(<<"<stdin>">>)), Opt("file", <<"!3">>)>>)
LDash2 == MetaLine("!2 = !DIFile(filename: \"-\", file: !3)", "!2", "File",
                   <<Opt("filename", Quoted(<<"-">>)), Opt("file", <<"!3">>)>>)
LSource2 == MetaLine("!2 = !DIFile(filename: \"<source>\", scope: !3)", "!2", "File",
                     <<Opt("filename", Quoted(<<"<source>">>)), Opt("scope", <<"!3">>)>>)
LExampleCpp2 == MetaLine("!2 = !DIFile(filename: \"example.cpp\", file: !3)", "!2", "File",
                         <<Opt("filename", Quoted(<<"example.", "cpp">>)),
                           Opt("file", <<"!3">>)>>)
LExampleDir2 == MetaLine("!2 = !DIFile(filename: \"example.d/main.c\", file: !3)", "!2",
                         "File",
                         <<Opt("filename", Quoted(<<"example.", "d", "/", "main.c">>)),
                           Opt("file", <<"!3">>)>>)
LFile3 == MetaLine("!3 = !DIFile(filename: \"foo.c\")", "!3", "File",
                   <<Opt("filename", Quoted(<<"foo.c">>))>>)
LExample3 == MetaLine("!3 = !DIFile(filename: \"dir/example.cpp\", scope: !2)", "!3", "File",
                      <<Opt("filename", Quoted(<<"dir", "/", "example.", "cpp">>)),
                        Opt("scope", <<"!2">>)>>)

----------------------------------------------------------------------------
(* The regular expressions of the constructor *)

\* line.trim().length === 0
IsBlank(line) == line.kind = "blank"

\* this.commentOnly.test(line)
CommentOnly(line) == line.kind = "comment"

\* this.llvmDebug.test(line)
LlvmDebug(line) == line.kind = "dbgcall"

\* line.match(this.debugReference): the capture, or no match
DebugReference(line) == line.dbg

\* line.match(this.metaNodeRe) succeeds
MetaNodeRe(line) == line.kind = "meta"

isLineLlvmDirective(line) == line.kind \in {"meta", "directive"}

\* stdInLooking.test(filename): <stdin> anywhere, exactly "-", example.<ext>
\* with no "/" after it up to the end, or <source> anywhere.
StdInLooking(filename) ==
    \/ \E n \in 1..Len(filename) : filename[n] = "<stdin>"
    \/ filename = <<"-">>
    \/ \E n \in 1..(Len(filename) - 1) :
          /\ filename[n] = "example."
          /\ \A m \in (n + 1)..Len(filename) : filename[m] # "/"
    \/ \E n \in 1..Len(filename) : filename[n] = "<source>"

\* Number(s) of the strings the options pattern can capture; NaN is -1.
NaN == -1
Digits == [s \in {"0", "3", "5", "7", "10"} |->
             CASE s = "0" -> 0 [] s = "3" -> 3 [] s = "5" -> 5 [] s = "7" -> 7
               [] OTHER -> 10]
Number(s) == IF Len(s) = 1 /\ s[1] \in DOMAIN Digits THEN Digits[s[1]] ELSE NaN

----------------------------------------------------------------------------
(* parseMetaNode *)

\* this.metaNodeOptionsRe.exec(options): the next pair at or after lastIndex,
\* and the new lastIndex; no match resets lastIndex to 0.
Exec(options, li) ==
    IF li < Len(options)
    THEN [match |-> Some(options[li + 1]), lastIndex |-> li + 1]
    ELSE [match |-> None, lastIndex |-> 0]

\* metaNode[key] = keyValuePair[2], with the quotes of a string removed.
SetOption(metaNode, pair) ==
    LET raw == pair.val
        val == IF Truthy(raw) /\ raw[1] = Quote
               THEN SubSeq(raw, 2, Len(raw) - 1)
               ELSE raw
    IN  (pair.key :> val) @@ metaNode

\* The mutant of OptionsLoop: an if in place of the while, one exec per call.
OptionsOnce(options, li, metaNode) ==
    LET e == Exec(options, li)
    IN  IF e.match = None
        THEN [node |-> metaNode, lastIndex |-> e.lastIndex]
        ELSE [node |-> SetOption(metaNode, e.match[1]), lastIndex |-> e.lastIndex]

\* while ((keyValuePair = this.metaNodeOptionsRe.exec(match[3]))) { ... }
RECURSIVE OptionsLoop(_, _, _)
OptionsLoop(options, li, metaNode) ==
    LET e == Exec(options, li)
    IN  IF e.match = None
        THEN [node |-> metaNode, lastIndex |-> e.lastIndex]
        ELSE OptionsLoop(options, e.lastIndex, SetOption(metaNode, e.match[1]))

\* parseMetaNode(line) with the regex at lastIndex li: the node (or null) and
\* the lastIndex it leaves.
parseMetaNode(line, li) ==
    IF ~MetaNodeRe(line)
    THEN [node |-> None, lastIndex |-> li]
    ELSE LET r == OptionsLoop(line.opts, li,
                              ("metaId" :> line.id) @@ ("metaType" :> <<line.mtype>>))
         IN  [node |-> Some(r.node), lastIndex |-> r.lastIndex]

----------------------------------------------------------------------------
(* The scope resolvers.  Each returns [thrown, val]: thrown when the         *)
(* recursion exhausts the call stack (RangeError), else val is the value.   *)

Returned(v) == [thrown |-> FALSE, val |-> v]
RangeError == [thrown |-> TRUE, val |-> None]

\* debugInfo[scope].attr, "" when the property is missing
Attr(info, scope, attr) ==
    IF attr \in DOMAIN info[scope] THEN info[scope][attr] ELSE << >>

RECURSIVE getFileName(_, _, _)

\* getFileName walking on from a node with a placeholder filename: its mutant.
getFileNamePastPlaceholder(info, scope, depth) ==
    IF depth > MaxStack THEN RangeError
    ELSE IF scope \notin DOMAIN info THEN Returned(None)
    ELSE IF Truthy(Attr(info, scope, "filename"))
            /\ ~StdInLooking(Attr(info, scope, "filename"))
         THEN Returned(Some(Attr(info, scope, "filename")))
    ELSE IF Truthy(Attr(info, scope, "file"))
         THEN getFileName(info, Attr(info, scope, "file"), depth + 1)
    ELSE IF ~Truthy(Attr(info, scope, "scope")) THEN Returned(None)
    ELSE getFileName(info, Attr(info, scope, "scope"), depth + 1)

getFileName(info, scope, depth) ==
    IF depth > MaxStack THEN RangeError
    ELSE IF scope \notin DOMAIN info THEN Returned(None)
    ELSE IF Truthy(Attr(info, scope, "filename"))
         THEN IF StdInLooking(Attr(info, scope, "filename"))
              THEN Returned(None)
              ELSE Returned(Some(Attr(info, scope, "filename")))
    ELSE IF Truthy(Attr(info, scope, "file"))
         THEN getFileName(info, Attr(info, scope, "file"), depth + 1)
    ELSE IF ~Truthy(Attr(info, scope, "scope")) THEN Returned(None)
    ELSE getFileName(info, Attr(info, scope, "scope"), depth + 1)

RECURSIVE getSourceLineNumber(_, _, _)
getSourceLineNumber(info, scope, depth) ==
    IF depth > MaxStack THEN RangeError
    ELSE IF scope \notin DOMAIN info THEN Returned(None)
    ELSE IF Truthy(Attr(info, scope, "line"))
         THEN Returned(Some(Number(Attr(info, scope, "line"))))
    ELSE IF Truthy(Attr(info, scope, "scope"))
         THEN getSourceLineNumber(info, Attr(info, scope, "scope"), depth + 1)
    ELSE Returned(None)

\* getSourceColumn without the recursion into the scope: its mutant.
getSourceColumnLocal(info, scope, depth) ==
    IF scope \notin DOMAIN info THEN Returned(None)
    ELSE IF Truthy(Attr(info, scope, "column"))
         THEN Returned(Some(Number(Attr(info, scope, "column"))))
    ELSE Returned(None)

RECURSIVE getSourceColumn(_, _, _)
getSourceColumn(info, scope, depth) ==
    IF depth > MaxStack THEN RangeError
    ELSE IF scope \notin DOMAIN info THEN Returned(None)
    ELSE IF Truthy(Attr(info, scope, "column"))
         THEN Returned(Some(Number(Attr(info, scope, "column"))))
    ELSE IF Truthy(Attr(info, scope, "scope"))
         THEN getSourceColumn(info, Attr(info, scope, "scope"), depth + 1)
    ELSE Returned(None)

----------------------------------------------------------------------------
(* processIr *)

Filters == [filterDebugInfo : BOOLEAN, filterIRMetadata : BOOLEAN,
            demangle : BOOLEAN, comments : BOOLEAN]

\* An IRResultLine: {text, scope?, source?}.
OutLine(text, scope) == [text |-> text, scope |-> scope, source |-> None]

\* const debugInfo = {}
EmptyInfo == [n \in {} |-> n]

\* The locals of a call at its start (lines 283-286).
Locals(li) ==
    [result |-> << >>, debugInfo |-> EmptyInfo, prevLineEmpty |-> FALSE,
     lastIndex |-> li]

\* The source object of lines 335-339, or the RangeError a resolver raised.
ResolveSource(info, scope) ==
    LET file == getFileName(info, scope, 0)
        line == getSourceLineNumber(info, scope, 0)
        column == getSourceColumn(info, scope, 0)
    IN  IF file.thrown \/ line.thrown \/ column.thrown
        THEN RangeError
        ELSE Returned([file |-> file.val, line |-> line.val, column |-> column.val])

\* Lines 290-294 with the blank pushed whatever came before: the mutant of
\* BlankLine.
BlankLineAlwaysPushed(s) ==
    [s EXCEPT !.result = Append(@, OutLine(EmptyText, None)),
              !.prevLineEmpty = TRUE]

\* Lines 290-294: a blank line.
BlankLine(s) ==
    [s EXCEPT !.result = IF ~s.prevLineEmpty
                         THEN Append(@, OutLine(EmptyText, None))
                         ELSE @,
              !.prevLineEmpty = TRUE]

\* A push that resolves the source at once, from the graph scanned so far:
\* the mutant of Emit.
EmitResolved(s, line, scope) ==
    LET src == IF Truthy(scope) THEN ResolveSource(s.debugInfo, scope) ELSE RangeError
    IN  [s EXCEPT !.result = Append(@, [OutLine(line, scope) EXCEPT
                                 !.source = IF src.thrown THEN None ELSE Some(src.val)]),
                  !.prevLineEmpty = FALSE]

\* result.push(...); prevLineEmpty = false (lines 308-312 and 324-325).
Emit(s, line, scope) ==
    [s EXCEPT !.result = Append(@, OutLine(line, scope)),
              !.prevLineEmpty = FALSE]

\* Lines 316-319: the node of a declaration line enters the graph.
Declare(s, line) ==
    LET p == parseMetaNode(line, s.lastIndex)
    IN  [s EXCEPT !.debugInfo = IF p.node # None
                                THEN (p.node[1]["metaId"] :> p.node[1]) @@ @
                                ELSE @,
                  !.lastIndex = p.lastIndex]

\* A scan loop in which a dropped line clears prevLineEmpty like an emitted
\* one: the mutant of ScanLine.
ScanLineClearsOnSkip(s, line, filters) ==
    IF IsBlank(line) THEN BlankLine(s)
    ELSE IF filters.comments /\ CommentOnly(line) THEN [s EXCEPT !.prevLineEmpty = FALSE]
    ELSE IF filters.filterDebugInfo /\ LlvmDebug(line) THEN [s EXCEPT !.prevLineEmpty = FALSE]
    ELSE IF Truthy(DebugReference(line)) THEN Emit(s, line, DebugReference(line))
    ELSE IF filters.filterIRMetadata /\ isLineLlvmDirective(line)
         THEN [Declare(s, line) EXCEPT !.prevLineEmpty = FALSE]
         ELSE Emit(Declare(s, line), line, None)

\* A scan loop that captures the debug reference before it applies the
\* comment and debug-call filters: a mutant of ScanLine.
ScanLineDebugFirst(s, line, filters) ==
    IF IsBlank(line) THEN BlankLine(s)
    ELSE IF Truthy(DebugReference(line)) THEN Emit(s, line, DebugReference(line))
    ELSE IF filters.comments /\ CommentOnly(line) THEN s
    ELSE IF filters.filterDebugInfo /\ LlvmDebug(line) THEN s
    ELSE IF filters.filterIRMetadata /\ isLineLlvmDirective(line)
         THEN Declare(s, line)
         ELSE Emit(Declare(s, line), line, None)

\* A scan loop that applies the directive filter before it parses the line as
\* a metadata node: a mutant of ScanLine.
ScanLineFilterBeforeParse(s, line, filters) ==
    IF IsBlank(line) THEN BlankLine(s)
    ELSE IF filters.comments /\ CommentOnly(line) THEN s
    ELSE IF filters.filterDebugInfo /\ LlvmDebug(line) THEN s
    ELSE IF Truthy(DebugReference(line)) THEN Emit(s, line, DebugReference(line))
    ELSE IF filters.filterIRMetadata /\ isLineLlvmDirective(line)
         THEN s
         ELSE Emit(Declare(s, line), line, None)

\* A scan loop whose directive filter spares the lines that declared a node:
\* a mutant of ScanLine.
ScanLineKeepsNodes(s, line, filters) ==
    IF IsBlank(line) THEN BlankLine(s)
    ELSE IF filters.comments /\ CommentOnly(line) THEN s
    ELSE IF filters.filterDebugInfo /\ LlvmDebug(line) THEN s
    ELSE IF Truthy(DebugReference(line)) THEN Emit(s, line, DebugReference(line))
    ELSE IF filters.filterIRMetadata /\ isLineLlvmDirective(line) /\ ~MetaNodeRe(line)
         THEN Declare(s, line)
         ELSE Emit(Declare(s, line), line, None)

\* One iteration of the scan loop (lines 288-326) on locals s.
ScanLine(s, line, filters) ==
    IF IsBlank(line) THEN BlankLine(s)
    ELSE IF filters.comments /\ CommentOnly(line) THEN s
    ELSE IF filters.filterDebugInfo /\ LlvmDebug(line) THEN s
    ELSE IF Truthy(DebugReference(line)) THEN Emit(s, line, DebugReference(line))
    ELSE IF filters.filterIRMetadata /\ isLineLlvmDirective(line)
         THEN Declare(s, line)
         ELSE Emit(Declare(s, line), line, None)

\* result.length = n: cut, or grown with holes.
Hole == OutLine(Plain("<empty slot>", "code", << >>), None)
SetLength(res, n) == [j \in 1..n |-> IF j <= Len(res) THEN res[j] ELSE Hole]

\* Lines 328-331 with > for >=: the mutant of Truncate.
TruncateWhenLonger(res, max) ==
    IF Len(res) > max
    THEN [SetLength(res, max + 1) EXCEPT ![max + 1] = OutLine(TruncatedText, None)]
    ELSE res

\* Lines 328-331.
Truncate(res, max) ==
    IF Len(res) >= max
    THEN [SetLength(res, max + 1) EXCEPT ![max + 1] = OutLine(TruncatedText, None)]
    ELSE res

\* A resolution loop that attaches only a source in which something was
\* found: the mutant of ResolveLine.
ResolveLineWhenFound(res, info, n) ==
    IF ~Truthy(res[n].scope)
    THEN Returned(res)
    ELSE LET src == ResolveSource(info, res[n].scope)
         IN  IF src.thrown THEN RangeError
             ELSE IF src.val.file = None /\ src.val.line = None /\ src.val.column = None
                  THEN Returned(res)
             ELSE Returned([res EXCEPT ![n].source = Some(src.val)])

\* One iteration of the resolution loop (lines 333-340) on result line n.
ResolveLine(res, info, n) ==
    IF ~Truthy(res[n].scope)
    THEN Returned(res)
    ELSE LET src == ResolveSource(info, res[n].scope)
         IN  IF src.thrown THEN RangeError
             ELSE Returned([res EXCEPT ![n].source = Some(src.val)])

\* this.irDemangler.process({asm}): an equivalently shaped, demangled sequence.
IrDemanglerProcess(asm) ==
    [n \in 1..Len(asm) |-> [asm[n] EXCEPT !.text.dm = TRUE]]

----------------------------------------------------------------------------
(* The calls made on the instance *)

NoCall == [on |-> FALSE, ir |-> << >>,
           filters |-> [filterDebugInfo |-> FALSE, filterIRMetadata |-> FALSE,
                        demangle |-> FALSE, comments |-> FALSE]]
CallOf(ir, filters) == [on |-> TRUE, ir |-> ir, filters |-> filters]

\* JavaScript runs a call to its await or its end before anything else runs.
Idle(c) == \A d \in Calls \ {c} : pc[d] \notin {"scan", "resolve"}
NoneRunning == \A d \in Calls : pc[d] \notin {"scan", "resolve"}

\* processIr(ir, filters) is called: lines 282-286.
Call(c) ==
    /\ UNCHANGED sponsorVars
    /\ pc[c] = "idle" /\ args[c].on /\ Idle(c)
    /\ pc' = [pc EXCEPT ![c] = "scan"]
    /\ i' = [i EXCEPT ![c] = 1]
    /\ result' = [result EXCEPT ![c] = Locals(lastIndex).result]
    /\ debugInfo' = [debugInfo EXCEPT ![c] = Locals(lastIndex).debugInfo]
    /\ prevLineEmpty' = [prevLineEmpty EXCEPT ![c] = Locals(lastIndex).prevLineEmpty]
    /\ origin' = [origin EXCEPT ![c] = << >>]
    /\ UNCHANGED <<maxIrLines, lastIndex, args, k, scanned, demangled, ret, probe,
                   probeNode>>

\* for (const line of irLines) { ... }
Scan(c) ==
    /\ UNCHANGED sponsorVars
    /\ pc[c] = "scan" /\ i[c] <= Len(args[c].ir)
    /\ LET s == [result |-> result[c], debugInfo |-> debugInfo[c],
                 prevLineEmpty |-> prevLineEmpty[c], lastIndex |-> lastIndex]
           t == ScanLine(s, args[c].ir[i[c]], args[c].filters)
       IN  /\ result' = [result EXCEPT ![c] = t.result]
           /\ debugInfo' = [debugInfo EXCEPT ![c] = t.debugInfo]
           /\ prevLineEmpty' = [prevLineEmpty EXCEPT ![c] = t.prevLineEmpty]
           /\ lastIndex' = t.lastIndex
           /\ origin' = [origin EXCEPT ![c] = IF Len(t.result) > Len(s.result)
                                               THEN Append(@, i[c]) ELSE @]
    /\ i' = [i EXCEPT ![c] = @ + 1]
    /\ UNCHANGED <<maxIrLines, args, pc, k, scanned, demangled, ret, probe, probeNode>>

\* if (result.length >= this.maxIrLines) { ... }
Cut(c) ==
    /\ UNCHANGED sponsorVars
    /\ pc[c] = "scan" /\ i[c] > Len(args[c].ir)
    /\ scanned' = [scanned EXCEPT ![c] = result[c]]
    /\ result' = [result EXCEPT ![c] = Truncate(@, maxIrLines)]
    /\ k' = [k EXCEPT ![c] = 1]
    /\ pc' = [pc EXCEPT ![c] = "resolve"]
    /\ UNCHANGED <<maxIrLines, lastIndex, args, i, debugInfo, prevLineEmpty, origin,
                   demangled, ret, probe, probeNode>>

\* for (const line of result) { ... }; a RangeError rejects the promise.
Resolve(c) ==
    /\ UNCHANGED sponsorVars
    /\ pc[c] = "resolve" /\ k[c] <= Len(result[c])
    /\ LET r == ResolveLine(result[c], debugInfo[c], k[c])
       IN  IF r.thrown
           THEN /\ pc' = [pc EXCEPT ![c] = "threw"]
                /\ UNCHANGED <<result, k>>
           ELSE /\ result' = [result EXCEPT ![c] = r.val]
                /\ k' = [k EXCEPT ![c] = @ + 1]
                /\ UNCHANGED pc
    /\ UNCHANGED <<maxIrLines, lastIndex, args, i, debugInfo, prevLineEmpty, origin,
                   scanned, demangled, ret, probe, probeNode>>

\* await this.irDemangler.process({asm: result}): the call is made.
InvokeDemangler(c) ==
    /\ UNCHANGED sponsorVars
    /\ pc[c] = "resolve" /\ k[c] > Len(result[c])
    /\ args[c].filters.demangle
    /\ demangled' = [demangled EXCEPT ![c] = Append(@, result[c])]
    /\ pc' = [pc EXCEPT ![c] = "await"]
    /\ UNCHANGED <<maxIrLines, lastIndex, args, i, result, debugInfo, prevLineEmpty,
                   k, origin, scanned, ret, probe, probeNode>>

\* The demangler's promise settles and processIr returns its result.
DemanglerSettles(c) ==
    /\ UNCHANGED sponsorVars
    /\ pc[c] = "await" /\ NoneRunning
    /\ ret' = [ret EXCEPT ![c] = Some(IrDemanglerProcess(demangled[c][Len(demangled[c])]))]
    /\ pc' = [pc EXCEPT ![c] = "done"]
    /\ UNCHANGED <<maxIrLines, lastIndex, args, i, result, debugInfo, prevLineEmpty,
                   k, origin, scanned, demangled, probe, probeNode>>

\* The else branch: the sequence is returned as built.
ReturnAsBuilt(c) ==
    /\ UNCHANGED sponsorVars
    /\ pc[c] = "resolve" /\ k[c] > Len(result[c])
    /\ ~args[c].filters.demangle
    /\ ret' = [ret EXCEPT ![c] = Some(result[c])]
    /\ pc' = [pc EXCEPT ![c] = "done"]
    /\ UNCHANGED <<maxIrLines, lastIndex, args, i, result, debugInfo, prevLineEmpty,
                   k, origin, scanned, demangled, probe, probeNode>>

\* A caller calls parseMetaNode(probe) directly.
ParseMetaNodeCall ==
    /\ UNCHANGED sponsorVars
    /\ NoneRunning
    /\ LET p == parseMetaNode(probe, lastIndex)
       IN  /\ probeNode' = Some(p.node)
           /\ lastIndex' = p.lastIndex
    /\ UNCHANGED <<maxIrLines, args, pc, i, result, debugInfo, prevLineEmpty, k,
                   origin, scanned, demangled, ret, probe>>

Next ==
    \/ \E c \in Calls : Call(c)
    \/ \E c \in Calls : Scan(c)
    \/ \E c \in Calls : Cut(c)
    \/ \E c \in Calls : Resolve(c)
    \/ \E c \in Calls : InvokeDemangler(c)
    \/ \E c \in Calls : DemanglerSettles(c)
    \/ \E c \in Calls : ReturnAsBuilt(c)

----------------------------------------------------------------------------
(* SponsorsImpl: compareSponsors, sponsorIconSetsOk, makeIconSets, the       *)
(* constructor and pickTopIcons.  Numbers that JavaScript holds as           *)
(* fractions are held here as integers over a common denominator.           *)

\* A Sponsor, with the fields the icon sets depend on.
Sponsor(name, icon, topIconShowEvery, priority) ==
    [name |-> name, icon |-> icon, topIconShowEvery |-> topIconShowEvery,
     priority |-> priority]

\* lhs.localeCompare(rhs) on the names in use.
LocaleRank == [n \in {"Alpha", "Bravo", "Charlie", "Delta", "Echo", "Foxtrot", "Golf"} |->
                 CASE n = "Alpha" -> 1 [] n = "Bravo" -> 2 [] n = "Charlie" -> 3
                   [] n = "Delta" -> 4 [] n = "Echo" -> 5 [] n = "Foxtrot" -> 6
                   [] OTHER -> 7]
localeCompare(lhs, rhs) == LocaleRank[lhs] - LocaleRank[rhs]

compareSponsors(lhs, rhs) ==
    IF lhs.priority # rhs.priority THEN rhs.priority - lhs.priority
    ELSE localeCompare(lhs.name, rhs.name)

\* Sums and products of f over a finite set.
RECURSIVE SumOver(_, _)
SumOver(f, S) ==
    IF S = {} THEN 0 ELSE LET x == CHOOSE y \in S : TRUE IN f[x] + SumOver(f, S \ {x})
RECURSIVE ProductOver(_, _)
ProductOver(f, S) ==
    IF S = {} THEN 1 ELSE LET x == CHOOSE y \in S : TRUE IN f[x] * ProductOver(f, S \ {x})

\* calcMean(values) times values.length, for values given by their numerators.
calcMean(values) == SumOver(values, DOMAIN values)

\* squareSumFromMean(values) times the square of values.length, for values
\* given by their numerators.
squareSumFromMean(values) ==
    LET n == Cardinality(DOMAIN values)
        mean == calcMean(values)
    IN  SumOver([j \in DOMAIN values |-> (n * values[j] - mean) * (n * values[j] - mean)],
                DOMAIN values)

\* sponsorIconSetsOk: count is the appearance count per icon (by its index in
\* ics), total the number of sets so far.  seenEvery of a group is held over
\* the common denominator den, and the standard deviation is compared with
\* 0.25 as 16 * squareSum < (n - 1) * (n * den)^2.
sponsorIconSetsOk(ics, count, total) ==
    /\ \A j \in DOMAIN ics :
          /\ count[j] > 0
          /\ ~(total > ics[j].topIconShowEvery * count[j])
    /\ \A every \in {ics[j].topIconShowEvery : j \in DOMAIN ics} :
          LET vals == {j \in DOMAIN ics : ics[j].topIconShowEvery = every}
              n == Cardinality(vals)
              den == ProductOver(count, vals)
              seenEvery == [j \in vals |-> total * (den \div count[j])]
          IN  n < 2 \/ 16 * squareSumFromMean(seenEvery) < (n - 1) * (n * den) * (n * den)

\* toPick.sort((lhs, rhs) => lhs.error - rhs.error): a stable sort of icon
\* indices by error = count - total / topIconShowEvery.
ErrorAtMost(ics, count, total, l, x) ==
    LET el == ics[l].topIconShowEvery
        ex == ics[x].topIconShowEvery
    IN  count[l] * el * ex - total * ex <= count[x] * el * ex - total * el

RECURSIVE InsertByError(_, _, _, _, _)
InsertByError(ics, count, total, sorted, x) ==
    IF sorted = << >> THEN <<x>>
    ELSE LET l == sorted[Len(sorted)]
         IN  IF ErrorAtMost(ics, count, total, l, x) THEN Append(sorted, x)
             ELSE Append(InsertByError(ics, count, total,
                                       SubSeq(sorted, 1, Len(sorted) - 1), x), l)

RECURSIVE SortByError(_, _, _, _)
SortByError(ics, count, total, seq) ==
    IF seq = << >> THEN << >>
    ELSE InsertByError(ics, count, total,
                       SortByError(ics, count, total, SubSeq(seq, 1, Len(seq) - 1)),
                       seq[Len(seq)])

\* .sort(compareSponsors): a stable sort of icon indices.
RECURSIVE InsertSponsor(_, _, _)
InsertSponsor(ics, sorted, x) ==
    IF sorted = << >> THEN <<x>>
    ELSE LET l == sorted[Len(sorted)]
         IN  IF compareSponsors(ics[l], ics[x]) <= 0 THEN Append(sorted, x)
             ELSE Append(InsertSponsor(ics, SubSeq(sorted, 1, Len(sorted) - 1), x), l)

RECURSIVE SortSponsors(_, _)
SortSponsors(ics, seq) ==
    IF seq = << >> THEN << >>
    ELSE InsertSponsor(ics, SortSponsors(ics, SubSeq(seq, 1, Len(seq) - 1)), seq[Len(seq)])

\* The defaults of makeIconSets and of the constructor.
MaxIters == 100
MaxTopIcons == 3

\* One iteration of the while loop of makeIconSets: the set it pushes and the
\* appearance counts after it.
PickSet(ics, maxIcons, sets, count) ==
    LET toPick == SortByError(ics, count, Len(sets), [j \in DOMAIN ics |-> j])
        sliced == SubSeq(toPick, 1, IF Len(toPick) < maxIcons THEN Len(toPick)
                                    ELSE maxIcons)
        chosen == SortSponsors(ics, sliced)
        picked == {chosen[n] : n \in DOMAIN chosen}
    IN  [sets |-> Append(sets, [n \in DOMAIN chosen |-> ics[chosen[n]]]),
         count |-> [j \in DOMAIN ics |-> IF j \in picked THEN count[j] + 1 ELSE count[j]]]

\* level.sponsors.filter(sponsor => sponsor.topIconShowEvery && sponsor.icon)
RECURSIVE TopIconsOf(_)
TopIconsOf(sponsors) ==
    IF sponsors = << >> THEN << >>
    ELSE (IF Head(sponsors).topIconShowEvery # 0 /\ Truthy(Head(sponsors).icon)
          THEN <<Head(sponsors)>> ELSE << >>) \o TopIconsOf(Tail(sponsors))

\* The loop of the constructor over the levels.
RECURSIVE IconsOf(_)
IconsOf(lvls) ==
    IF lvls = << >> THEN << >>
    ELSE TopIconsOf(Head(lvls).sponsors) \o IconsOf(Tail(lvls))

\* loadSponsorsFromLevels(levels): new SponsorsImpl(levels) up to the call of
\* makeIconSets(this._icons, maxTopIcons) and its first two statements.
LoadSponsorsFromLevels ==
    /\ made = "new"
    /\ icons' = IconsOf(levels)
    /\ iconSets' = << >>
    /\ appearances' = [j \in DOMAIN IconsOf(levels) |-> 0]
    /\ made' = "making"
    /\ UNCHANGED <<levels, nextSet, picks>>
    /\ UNCHANGED parserVars

\* An iteration of the while loop of makeIconSets.
MakeIconSetsStep ==
    /\ made = "making"
    /\ ~sponsorIconSetsOk(icons, appearances, Len(iconSets))
    /\ Len(iconSets) <= MaxIters
    /\ LET p == PickSet(icons, MaxTopIcons, iconSets, appearances)
       IN  iconSets' = p.sets /\ appearances' = p.count
    /\ UNCHANGED <<levels, made, icons, nextSet, picks>>
    /\ UNCHANGED parserVars

\* throw new Error(`Unable to find a solution in ${maxIters}`): no instance.
MakeIconSetsThrows ==
    /\ made = "making"
    /\ ~sponsorIconSetsOk(icons, appearances, Len(iconSets))
    /\ Len(iconSets) > MaxIters
    /\ made' = "threw"
    /\ UNCHANGED <<levels, icons, iconSets, appearances, nextSet, picks>>
    /\ UNCHANGED parserVars

\* makeIconSets returns; this._iconSets = result; this._nextSet = 0.
MakeIconSetsReturns ==
    /\ made = "making"
    /\ sponsorIconSetsOk(icons, appearances, Len(iconSets))
    /\ made' = "built"
    /\ nextSet' = 0
    /\ UNCHANGED <<levels, icons, iconSets, appearances, picks>>
    /\ UNCHANGED parserVars

\* this._iconSets[this._nextSet], undefined when there is no such element.
SetAt(sets, n) == IF n # NaN /\ n < Len(sets) THEN Some(sets[n + 1]) ELSE None

\* (n + 1) % m in JavaScript, NaN when m is 0 or n is NaN.
NextIndex(n, m) == IF n = NaN \/ m = 0 THEN NaN ELSE (n + 1) % m

\* pickTopIcons(maxIcons, randFunc): neither argument is used.
PickTopIcons ==
    /\ made = "built" /\ Len(picks) < MaxPicks
    /\ picks' = Append(picks, SetAt(iconSets, nextSet))
    /\ nextSet' = NextIndex(nextSet, Len(iconSets))
    /\ UNCHANGED <<levels, made, icons, iconSets, appearances>>
    /\ UNCHANGED parserVars

NextSponsors ==
    \/ LoadSponsorsFromLevels
    \/ MakeIconSetsStep
    \/ MakeIconSetsThrows
    \/ MakeIconSetsReturns
    \/ PickTopIcons

----------------------------------------------------------------------------
(* Inputs *)

\* All sequences over S of length at most n.
SeqsUpTo(S, n) == UNION {[1..m -> S] : m \in 0..n}

\* The sequences of SeqsUpTo(S, n) in which no line occurs twice.
DistinctSeqsUpTo(S, n) ==
    {q \in SeqsUpTo(S, n) : \A a, b \in 1..Len(q) : a # b => q[a] # q[b]}

\* this.maxIrLines: a cap the inputs reach, and one they do not.
Caps == {2, MaxLen + 1}

\* No SponsorsImpl is made.
NoSponsors ==
    /\ levels = << >> /\ made = "new"
    /\ icons = << >> /\ iconSets = << >> /\ appearances = << >>
    /\ nextSet = 0 /\ picks = << >>

\* The instance after construction, about to be called with the first call's
\* arguments from First and the later calls' from Later.
InitWith(First, Later, Probes) ==
    /\ maxIrLines \in Caps
    /\ lastIndex = 0
    /\ \E a \in First : \E l \in [Calls \ {1} -> Later] :
          args = [c \in Calls |-> IF c = 1 THEN a ELSE l[c]]
    /\ pc = [c \in Calls |-> "idle"]
    /\ i = [c \in Calls |-> 1]
    /\ result = [c \in Calls |-> << >>]
    /\ debugInfo = [c \in Calls |-> EmptyInfo]
    /\ prevLineEmpty = [c \in Calls |-> FALSE]
    /\ k = [c \in Calls |-> 1]
    /\ origin = [c \in Calls |-> << >>]
    /\ scanned = [c \in Calls |-> << >>]
    /\ demangled = [c \in Calls |-> << >>]
    /\ ret = [c \in Calls |-> None]
    /\ probe \in Probes
    /\ probeNode = None
    /\ NoSponsors

\* Text with blank runs, a comment, a debug call, a directive and a scoped
\* line, under every filter configuration.
TextLines == {LSpaces, LComment, LDbgCall, LRet1, LTriple}

Init ==
    InitWith({CallOf(ir, f) : ir \in SeqsUpTo(TextLines, MaxLen), f \in Filters},
             {NoCall}, {LBlock1})

Spec == Init /\ [][Next]_vars

\* Debug metadata: a scoped line and declarations of !1, !2 and !3 in every
\* order, with chains that end in a file, in a placeholder, at a missing node
\* or in a cycle.
MetaLines == {LRet1, LBlock1, LSub2, LBack2, LUnit2, LStdin2, LFile3, LExample3}
MetaFilters == {f \in Filters : ~f.comments /\ ~f.filterDebugInfo}

InitMeta ==
    InitWith({CallOf(ir, f) : ir \in DistinctSeqsUpTo(MetaLines, MaxLen), f \in MetaFilters},
             {NoCall}, {LBlock1})

SpecMeta == InitMeta /\ [][Next]_vars

\* File names: a scoped line, its chain to !2, and declarations of !2 with
\* each placeholder name and with a name that only resembles one.
FileLines == {LRet1, LBlock1, LStdin2, LDash2, LSource2, LExampleCpp2, LExampleDir2,
              LFile3}

InitFile ==
    InitWith({CallOf(ir, f) : ir \in DistinctSeqsUpTo(FileLines, MaxLen), f \in MetaFilters},
             {NoCall}, {LBlock1})

SpecFile == InitFile /\ [][Next]_vars

\* Calls that overlap at the await, and direct parseMetaNode calls between
\* them: the first call scans any ordering of a scoped line and two
\* declarations, the later calls a scoped line after or before its declaration.
ReentrantLines == {LRet1, LBlock1, LBack2}
ReentrantFilters == {f \in MetaFilters : ~f.filterIRMetadata}

NextReentrant == Next \/ ParseMetaNodeCall

InitReentrant ==
    InitWith({CallOf(ir, f) : ir \in DistinctSeqsUpTo(ReentrantLines, MaxLen),
                              f \in ReentrantFilters},
             {CallOf(ir, f) : ir \in {<<LBlock1, LRet1>>, <<LRet2, LUnit2>>},
                              f \in ReentrantFilters},
             {LBlock1, LUnit2, LRet1})

SpecReentrant == InitReentrant /\ [][NextReentrant]_vars

\* Comments: blank lines, comment-only lines with and without a debug
\* reference, and code with a trailing comment, with and without one.
CommentLines == {LSpaces, LComment, LCommentDbg, LInline, LInlineDbg}
CommentFilters == {f \in Filters : ~f.filterDebugInfo /\ ~f.filterIRMetadata}

InitComments ==
    InitWith({CallOf(ir, f) : ir \in SeqsUpTo(CommentLines, MaxLen), f \in CommentFilters},
             {NoCall}, {LBlock1})

SpecComments == InitComments /\ [][Next]_vars

\* Directives: a scoped line, declarations and reserved directive lines with
\* and without a debug reference in them, under every filter configuration.
DirectiveLines == {LRet1, LBlock1, LBlockDbg1, LFileDbg3, LTriple, LSourceDbg}

InitDirectives ==
    InitWith({CallOf(ir, f) : ir \in DistinctSeqsUpTo(DirectiveLines, MaxLen), f \in Filters},
             {NoCall}, {LBlock1})

SpecDirectives == InitDirectives /\ [][Next]_vars

\* Sponsors: levels with a sponsor shown in every set, sponsors shown every
\* second and third set, sponsors that do not qualify as top icons, and none.
LvCorporate == [sponsors |-> <<Sponsor("Alpha", <<"alpha.svg">>, 1, 1),
                               Sponsor("Bravo", <<"bravo.svg">>, 2, 0)>>]
LvPatrons == [sponsors |-> <<Sponsor("Charlie", <<"charlie.svg">>, 2, 0),
                             Sponsor("Delta", <<"delta.svg">>, 2, 0)>>]
LvLegends == [sponsors |-> <<Sponsor("Echo", <<"echo.svg">>, 3, 0)>>]
LvFriends == [sponsors |-> <<Sponsor("Foxtrot", <<"foxtrot.svg">>, 0, 0),
                             Sponsor("Golf", << >>, 2, 0)>>]
LvEmpty == [sponsors |-> << >>]
LevelPool == {LvCorporate, LvPatrons, LvLegends, LvFriends, LvEmpty}

\* The parser is constructed and never called.
ParserIdle ==
    /\ maxIrLines = 2 /\ lastIndex = 0
    /\ args = [c \in Calls |-> NoCall]
    /\ pc = [c \in Calls |-> "idle"]
    /\ i = [c \in Calls |-> 1]
    /\ result = [c \in Calls |-> << >>]
    /\ debugInfo = [c \in Calls |-> EmptyInfo]
    /\ prevLineEmpty = [c \in Calls |-> FALSE]
    /\ k = [c \in Calls |-> 1]
    /\ origin = [c \in Calls |-> << >>]
    /\ scanned = [c \in Calls |-> << >>]
    /\ demangled = [c \in Calls |-> << >>]
    /\ ret = [c \in Calls |-> None]
    /\ probe = LBlock1
    /\ probeNode = None

InitSponsors ==
    /\ ParserIdle
    /\ levels \in DistinctSeqsUpTo(LevelPool, MaxLevels)
    /\ made = "new"
    /\ icons = << >> /\ iconSets = << >> /\ appearances = << >>
    /\ nextSet = 0 /\ picks = << >>

SpecSponsors == InitSponsors /\ [][NextSponsors]_vars

----------------------------------------------------------------------------
(* Claims *)

Input(c) == args[c].ir
Returns(c) == pc[c] = "done"

\* The sequences a call has built or returned.
Built(c) == {result[c]} \cup (IF ret[c] = None THEN {} ELSE {ret[c][1]})

\* C1: the sequence processIr builds (and the one it returns) never holds two
\* adjacent lines whose text is blank, whatever the input, filters and cap.
C1_NoAdjacentBlanks ==
    \A c \in Calls : \A out \in Built(c) : \A n \in 1..(Len(out) - 1) :
        ~(IsBlank(out[n].text) /\ IsBlank(out[n + 1].text))

\* C1 witness: a returned sequence with a blank line, from an input in which
\* two blank lines are adjacent and two more are separated by a dropped line.
C1_Witness ==
    \E c \in Calls :
        /\ Returns(c)
        /\ \E n \in 1..Len(ret[c][1]) : IsBlank(ret[c][1][n].text)
        /\ \E n \in 1..(Len(Input(c)) - 3) :
              /\ IsBlank(Input(c)[n]) /\ IsBlank(Input(c)[n + 1])
              /\ CommentOnly(Input(c)[n + 2]) /\ args[c].filters.comments
              /\ IsBlank(Input(c)[n + 3])

\* Line n of out carries the text and the scope of line n of the scan.
SameLine(out, c, n) ==
    out[n].text = scanned[c][n].text /\ out[n].scope = scanned[c][n].scope

\* C2: with demangling off, a scan of n >= cap lines returns exactly cap + 1
\* lines, the first cap scanned lines in order and then the marker at index
\* cap; a scan of n < cap lines returns the n lines and no marker.
C2_Truncation ==
    \A c \in Calls :
        (Returns(c) /\ ~args[c].filters.demangle) =>
            LET out == ret[c][1]
                n == Len(scanned[c])
            IN  IF n >= maxIrLines
                THEN /\ Len(out) = maxIrLines + 1
                     /\ \A m \in 1..maxIrLines : SameLine(out, c, m)
                     /\ out[maxIrLines + 1] = OutLine(TruncatedText, None)
                ELSE /\ Len(out) = n
                     /\ \A m \in 1..n :
                           SameLine(out, c, m) /\ out[m].text # TruncatedText

\* C2 witness: a scan of two lines more than the cap has returned.
C2_Witness ==
    \E c \in Calls :
        /\ Returns(c) /\ ~args[c].filters.demangle
        /\ Len(scanned[c]) >= maxIrLines + 2
        /\ Len(ret[c][1]) = maxIrLines + 1

\* The lines of ir that reach parseMetaNode and declare a node.
Declaring(ir) ==
    {n \in 1..Len(ir) : MetaNodeRe(ir[n]) /\ ~Truthy(DebugReference(ir[n]))}

\* The metadata graph of the whole input: per id, its last declaration.
GraphOf(ir) ==
    LET ids == {ir[n].id : n \in Declaring(ir)}
        last(id) == CHOOSE n \in Declaring(ir) :
                        /\ ir[n].id = id
                        /\ \A m \in Declaring(ir) : ir[m].id = id => m <= n
    IN  [id \in ids |-> parseMetaNode(ir[last(id)], 0).node[1]]

\* C3: no source is resolved before the whole input is scanned, and every
\* resolved source is the one the complete metadata graph of the input gives,
\* wherever in the input the declarations stand.
C3_ResolvedFromCompleteGraph ==
    \A c \in Calls : \A n \in 1..Len(result[c]) :
        result[c][n].source # None =>
            /\ i[c] > Len(Input(c))
            /\ pc[c] \in {"resolve", "await", "done", "threw"}
            /\ result[c][n].source =
                   Some(ResolveSource(GraphOf(Input(c)), result[c][n].scope).val)

\* C3 witness: the first line refers to !1, declared on the fourth line, past
\* the cut at two lines, and is returned with the line number declared there.
C3_Witness ==
    \E c \in Calls :
        /\ Returns(c) /\ maxIrLines = 2
        /\ Len(Input(c)) = 4 /\ Input(c)[1] = LRet1 /\ Input(c)[4] = LBlock1
        /\ Len(scanned[c]) = 4 /\ Len(ret[c][1]) = 3
        /\ ret[c][1][1].source # None
        /\ ret[c][1][1].source[1].line = Some(10)

\* C4: the resolvers return on every metadata graph, so that no call of
\* processIr ends in an error.
C4_NoErrorRaised ==
    \A c \in Calls : pc[c] # "threw"

----------------------------------------------------------------------------
(* The reference resolver of C5, by chains *)

\* Node s of g has attribute a, and it is not the empty string.
HasAttr(g, s, a) ==
    /\ s \in DOMAIN g
    /\ a \in DOMAIN g[s]
    /\ Truthy(g[s][a])

\* The nodes a scope or file attribute of s leads to.
Succ(g, s) ==
    {g[s][a] : a \in {"scope", "file"} \cap DOMAIN g[s]} \cap DOMAIN g

RECURSIVE ReachN(_, _, _)
ReachN(g, S, n) ==
    IF n = 0 THEN S ELSE ReachN(g, S \cup UNION {Succ(g, x) : x \in S}, n - 1)

Acyclic(g) ==
    \A s \in DOMAIN g : s \notin ReachN(g, Succ(g, s), Cardinality(DOMAIN g))

\* The nodes of g on the scope chain from s, nearest first (n bounds it).
RECURSIVE ScopeChain(_, _, _)
ScopeChain(g, s, n) ==
    IF s \notin DOMAIN g \/ n = 0 THEN << >>
    ELSE IF HasAttr(g, s, "scope")
         THEN <<s>> \o ScopeChain(g, g[s]["scope"], n - 1)
         ELSE <<s>>

\* The nodes of g on the walk for the file from s: up to the first node with
\* a filename, through file if there is one, else through scope.
RECURSIVE FileChain(_, _, _)
FileChain(g, s, n) ==
    IF s \notin DOMAIN g \/ n = 0 THEN << >>
    ELSE IF HasAttr(g, s, "filename") THEN <<s>>
    ELSE IF HasAttr(g, s, "file")
         THEN <<s>> \o FileChain(g, g[s]["file"], n - 1)
    ELSE IF HasAttr(g, s, "scope")
         THEN <<s>> \o FileChain(g, g[s]["scope"], n - 1)
    ELSE <<s>>

\* Number() of attribute a of the nearest node of the scope chain that has it.
NearestNumber(g, s, a) ==
    LET ch == ScopeChain(g, s, Cardinality(DOMAIN g))
        hits == {n \in 1..Len(ch) : HasAttr(g, ch[n], a)}
        first == CHOOSE n \in hits : \A m \in hits : n <= m
    IN  IF hits = {} THEN None ELSE Some(Number(g[ch[first]][a]))

\* The file the walk ends at; a placeholder is null when placeholders says so.
WalkedFile(g, s, placeholders) ==
    LET ch == FileChain(g, s, Cardinality(DOMAIN g))
        end == ch[Len(ch)]
    IN  IF ch = << >> \/ ~HasAttr(g, end, "filename") THEN None
        ELSE IF placeholders /\ StdInLooking(g[end]["filename"]) THEN None
        ELSE Some(g[end]["filename"])

ReferenceSource(g, s, placeholders) ==
    [file |-> WalkedFile(g, s, placeholders),
     line |-> NearestNumber(g, s, "line"),
     column |-> NearestNumber(g, s, "column")]

\* The returned lines that carry a source.
Sourced(c) == {n \in 1..Len(ret[c][1]) : ret[c][1][n].source # None}

\* C5 as stated: on an acyclic graph the source of a returned line is the
\* reference resolver's, whose file is the filename attribute of the node
\* the walk ends at, whatever that name is.
C5_AsStated ==
    \A c \in Calls : (Returns(c) /\ Acyclic(GraphOf(Input(c)))) =>
        \A n \in Sourced(c) :
            ret[c][1][n].source[1] =
                ReferenceSource(GraphOf(Input(c)), ret[c][1][n].scope, FALSE)

\* C5 amended: on an acyclic graph the source of a returned line is the
\* reference resolver's, whose file is null when the filename the walk ends
\* at is a placeholder (an attribute counts when it is not empty).
C5_ReferenceResolver ==
    \A c \in Calls : (Returns(c) /\ Acyclic(GraphOf(Input(c)))) =>
        \A n \in Sourced(c) :
            ret[c][1][n].source[1] =
                ReferenceSource(GraphOf(Input(c)), ret[c][1][n].scope, TRUE)

\* C5 witness: the chain !1 -> !2 -> !3 = foo.c and a line referring to !1,
\* returned with {file: foo.c, line: 10, column: absent}.
C5_Witness ==
    \E c \in Calls :
        /\ Returns(c)
        /\ {Input(c)[n] : n \in 1..Len(Input(c))} = {LBlock1, LSub2, LFile3, LRet1}
        /\ \E n \in Sourced(c) :
              /\ ret[c][1][n].scope = Ref("!1")
              /\ ret[c][1][n].source[1] =
                     [file |-> Some(<<"foo.c">>), line |-> Some(10), column |-> None]

\* The placeholder file names C6 lists.
Placeholders == {<<"<stdin>">>, <<"-">>, <<"example.", "cpp">>, <<"<source>">>}

\* The walk for the file from s ends at a node whose filename is a placeholder.
EndsAtPlaceholder(g, s) ==
    LET ch == FileChain(g, s, Cardinality(DOMAIN g))
    IN  /\ ch # << >>
        /\ HasAttr(g, ch[Len(ch)], "filename")
        /\ g[ch[Len(ch)]]["filename"] \in Placeholders

\* C6: no resolved file is a placeholder name, and a walk that reaches a node
\* with a placeholder filename resolves to null, not to a filename further on.
C6_NoPlaceholderFile ==
    \A c \in Calls : \A n \in 1..Len(result[c]) :
        result[c][n].source # None =>
            /\ result[c][n].source[1].file \notin {Some(f) : f \in Placeholders}
            /\ EndsAtPlaceholder(GraphOf(Input(c)), result[c][n].scope) =>
                   result[c][n].source[1].file = None

\* C6 witness: a returned line whose walk reaches a placeholder node that has
\* a file attribute leading to foo.c, resolved to a null file.
C6_Witness ==
    \E c \in Calls : \E n \in 1..Len(result[c]) :
        /\ Returns(c)
        /\ result[c][n].source # None
        /\ EndsAtPlaceholder(GraphOf(Input(c)), result[c][n].scope)
        /\ HasAttr(GraphOf(Input(c)), Ref("!2"), "file")
        /\ HasAttr(GraphOf(Input(c)), Ref("!3"), "filename")
        /\ result[c][n].source[1].file = None

\* The source in which nothing was found.
UnknownSource == [file |-> None, line |-> None, column |-> None]

\* C7 as stated: a returned line has a source only if it has a scope and the
\* resolution found something; a line whose scope names a node missing from
\* the graph has no source.
C7_AsStated ==
    \A c \in Calls : Returns(c) =>
        \A n \in 1..Len(ret[c][1]) :
            LET out == ret[c][1][n]
            IN  /\ out.source # None =>
                       (Truthy(out.scope) /\ out.source[1] # UnknownSource)
                /\ (Truthy(out.scope) /\ out.scope \notin DOMAIN GraphOf(Input(c))) =>
                       out.source = None

\* C7 amended: a returned line has a source exactly if it has a scope, which
\* is the debug reference of its text; when the scope names a node missing
\* from the graph the source is {file: null, line: null, column: absent}.
C7_SourceIffScope ==
    \A c \in Calls : Returns(c) =>
        \A seq \in Built(c) : \A n \in 1..Len(seq) :
            LET out == seq[n]
            IN  /\ out.source # None <=> Truthy(out.scope)
                /\ Truthy(out.scope) => out.scope = DebugReference(out.text)
                /\ (Truthy(out.scope) /\ out.scope \notin DOMAIN GraphOf(Input(c))) =>
                       out.source = Some(UnknownSource)

\* C7 witness: a returned line whose scope !1 is declared nowhere, beside
\* a declaration of another node.
C7_Witness ==
    \E c \in Calls :
        /\ Returns(c)
        /\ DOMAIN GraphOf(Input(c)) = {Ref("!2")}
        /\ \E n \in 1..Len(ret[c][1]) :
              /\ ret[c][1][n].scope = Ref("!1")
              /\ ret[c][1][n].source = Some(UnknownSource)

----------------------------------------------------------------------------
(* Blank runs (C10) *)

\* Lines a..b of ir are a maximal run of blank lines.
MaximalBlankRun(ir, a, b) ==
    /\ a <= b
    /\ \A n \in a..b : IsBlank(ir[n])
    /\ a = 1 \/ ~IsBlank(ir[a - 1])
    /\ b = Len(ir) \/ ~IsBlank(ir[b + 1])

\* The scan of call c is over and its output is below the cap.
ScannedUncut(c) ==
    /\ pc[c] \in {"resolve", "await", "done", "threw"}
    /\ Len(scanned[c]) < maxIrLines

\* The blank output lines that input lines a..b of call c put in the output.
Contribution(c, a, b) ==
    Cardinality({n \in 1..Len(scanned[c]) :
                    origin[c][n] \in a..b /\ scanned[c][n].text = EmptyText})

\* The last line emitted before input line a of call c is a blank one.
AfterEmittedBlank(c, a) ==
    LET before == {n \in 1..Len(scanned[c]) : origin[c][n] < a}
    IN  /\ before # {}
        /\ \A n \in before :
               (\A m \in before : m <= n) => IsBlank(scanned[c][n].text)

\* C10 as stated: without truncation, every maximal run of two or more blank
\* input lines puts exactly one blank line in the output.
C10_AsStated ==
    \A c \in Calls : ScannedUncut(c) =>
        \A a, b \in 1..Len(Input(c)) :
            (a < b /\ MaximalBlankRun(Input(c), a, b)) => Contribution(c, a, b) = 1

\* C10 amended: without truncation, every maximal run of two or more blank
\* input lines puts one blank line in the output, unless the last line
\* emitted before the run is itself blank, and then it puts none.
C10_OneBlankPerRun ==
    \A c \in Calls : ScannedUncut(c) =>
        \A a, b \in 1..Len(Input(c)) :
            (a < b /\ MaximalBlankRun(Input(c), a, b)) =>
                Contribution(c, a, b) = IF AfterEmittedBlank(c, a) THEN 0 ELSE 1

\* C10 witness: a blank line, a dropped comment and a run of two blank lines
\* that puts nothing in the output, in a call that has returned.
C10_Witness ==
    \E c \in Calls :
        /\ Returns(c) /\ ScannedUncut(c)
        /\ Len(Input(c)) = 4
        /\ IsBlank(Input(c)[1]) /\ CommentOnly(Input(c)[2])
        /\ MaximalBlankRun(Input(c), 3, 4)
        /\ Contribution(c, 1, 1) = 1 /\ Contribution(c, 3, 4) = 0

----------------------------------------------------------------------------
(* The demangling step (C8) *)

\* The call is over: it has returned or it has raised.
Over(c) == pc[c] \in {"done", "threw"}

\* Every line of seq that has a scope has its source.
AllResolved(seq) == \A n \in 1..Len(seq) : Truthy(seq[n].scope) => seq[n].source # None

\* What C8 says of the calls of the demangler, but for how many there are.
DemangleOrder(c) ==
    /\ Len(demangled[c]) <= 1
    /\ ~args[c].filters.demangle => Len(demangled[c]) = 0
    /\ Len(demangled[c]) = 1 =>
           /\ pc[c] \in {"await", "done"}
           /\ demangled[c][1] = result[c]
           /\ Len(result[c]) = Len(Truncate(scanned[c], maxIrLines))
           /\ AllResolved(result[c])
    /\ Returns(c) =>
           ret[c] = IF args[c].filters.demangle
                    THEN Some(IrDemanglerProcess(demangled[c][1]))
                    ELSE Some(result[c])

\* C8: the demangler is invoked exactly once by a call with filters.demangle
\* and never by another; it is invoked after the truncation and after every
\* scoped line has its source, with the whole output, and its result is what
\* the call returns; otherwise the output is returned as built.
C8_DemangleOnce ==
    \A c \in Calls :
        /\ DemangleOrder(c)
        /\ (Over(c) /\ args[c].filters.demangle) => Len(demangled[c]) = 1

\* C8 on the calls that return: there the demangler was invoked exactly once
\* when filters.demangle is set.
C8_OnCallsThatReturn ==
    \A c \in Calls :
        /\ DemangleOrder(c)
        /\ (Returns(c) /\ args[c].filters.demangle) => Len(demangled[c]) = 1

----------------------------------------------------------------------------
(* Independence of the calls (C9) *)

\* The scan of lines n.. of ir, from locals s.
RECURSIVE ScanFrom(_, _, _, _)
ScanFrom(ir, n, s, filters) ==
    IF n > Len(ir) THEN s ELSE ScanFrom(ir, n + 1, ScanLine(s, ir[n], filters), filters)

\* The resolution of lines n.. of res.
RECURSIVE ResolveFrom(_, _, _)
ResolveFrom(res, info, n) ==
    IF n > Len(res) THEN Returned(res)
    ELSE LET r == ResolveLine(res, info, n)
         IN  IF r.thrown THEN r ELSE ResolveFrom(r.val, info, n + 1)

\* processIr(a.ir, a.filters) alone on a fresh instance with the cap max.
Alone(a, max) ==
    LET s == ScanFrom(a.ir, 1, Locals(0), a.filters)
        r == ResolveFrom(Truncate(s.result, max), s.debugInfo, 1)
    IN  IF r.thrown \/ ~a.filters.demangle THEN r
        ELSE Returned(IrDemanglerProcess(r.val))

\* C9: whatever calls came before or overlap, a call starts from an empty
\* graph and output list, ends as it would alone on a fresh instance, the
\* options regex is at its initial position between calls, and a direct
\* parseMetaNode call returns what a first call with that line returns.
C9_CallsIndependent ==
    /\ lastIndex = 0
    /\ probeNode # None => probeNode = Some(parseMetaNode(probe, 0).node)
    /\ \A c \in Calls :
          /\ (pc[c] = "scan" /\ i[c] = 1) =>
                 (result[c] = << >> /\ debugInfo[c] = EmptyInfo /\ ~prevLineEmpty[c])
          /\ Returns(c) => Returned(ret[c][1]) = Alone(args[c], maxIrLines)
          /\ pc[c] = "threw" => Alone(args[c], maxIrLines).thrown

\* C9 witness: call 1 awaits the demangler with one graph while call 2 has
\* scanned another and returned, and parseMetaNode was called directly.
C9_Witness ==
    /\ pc[1] = "await" /\ pc[2] = "done"
    /\ probeNode # None /\ probeNode[1] # None
    /\ DOMAIN debugInfo[1] = {Ref("!1"), Ref("!2")}
    /\ DOMAIN debugInfo[2] = {Ref("!1")}
    /\ debugInfo[1][Ref("!1")] = debugInfo[2][Ref("!1")]

----------------------------------------------------------------------------
(* The comment-only filter (C11) *)

\* The call has left the scan and the truncation behind.
Scanned(c) == pc[c] \in {"resolve", "await", "done", "threw"}

\* What the scan makes of the call's input under filters f.
ScanOutput(c, f) == ScanFrom(Input(c), 1, Locals(0), f).result
CommentsOff(c) == [args[c].filters EXCEPT !.comments = FALSE]

\* The lines of out that are input lines with code, in order, each with its
\* text and scope.
RECURSIVE CodeLines(_)
CodeLines(out) ==
    IF out = << >> THEN << >>
    ELSE LET l == Head(out)
         IN  IF IsBlank(l.text) \/ CommentOnly(l.text) \/ l.text = TruncatedText
             THEN CodeLines(Tail(out))
             ELSE <<[text |-> l.text, scope |-> l.scope]>> \o CodeLines(Tail(out))

\* No sequence the call has built or returned holds a comment-only line.
NoCommentEmitted(c) ==
    \A out \in Built(c) \cup {scanned[c]} : \A n \in 1..Len(out) : ~CommentOnly(out[n].text)

\* C11: with filters.comments no line of the output begins with ; after its
\* leading whitespace, and the scan emits the lines with code with the text,
\* the scope and the order it emits them with when the filter is disabled.
C11_CommentFilter ==
    \A c \in Calls :
        (Scanned(c) /\ args[c].filters.comments) =>
            /\ NoCommentEmitted(c)
            /\ CodeLines(scanned[c]) = CodeLines(ScanOutput(c, CommentsOff(c)))

\* C11 witness: a call with the filter on has returned; its input has a
\* comment-only line with a debug reference and a scoped line with a trailing
\* comment; the scan dropped the first and the output holds the second.
C11_Witness ==
    \E c \in Calls :
        /\ Returns(c) /\ args[c].filters.comments
        /\ \E n, m \in 1..Len(Input(c)) : Input(c)[n] = LCommentDbg /\ Input(c)[m] = LInlineDbg
        /\ Len(scanned[c]) < Len(ScanOutput(c, CommentsOff(c)))
        /\ \E n \in 1..Len(ret[c][1]) :
              ret[c][1][n].text.chars = LInlineDbg.chars /\ ret[c][1][n].scope = Ref("!1")

----------------------------------------------------------------------------
(* The metadata graph during the scan (C12) *)

\* The input lines the scan of call c has been through.
Passed(c) == 1..(i[c] - 1)

\* The graph in which each id of the lines S of ir has its last declaration.
GraphOfLines(ir, S) ==
    LET last(id) == CHOOSE n \in S : ir[n].id = id /\ \A m \in S : ir[m].id = id => m <= n
    IN  [id \in {ir[n].id : n \in S} |-> parseMetaNode(ir[last(id)], 0).node[1]]

\* The lines the scan has passed that match the metadata-node pattern.
PassedNodes(c) == {n \in Passed(c) : MetaNodeRe(Input(c)[n])}
PassedPlainNodes(c) == {n \in PassedNodes(c) : ~Truthy(DebugReference(Input(c)[n]))}

\* C12 as stated: every line the scan has passed that matches the
\* metadata-node pattern is in the graph under its metaId (a later
\* declaration of the same id replacing an earlier one), emitted or not,
\* with or without a debug reference in it.
C12_AsStated ==
    \A c \in Calls : \A n \in PassedNodes(c) :
        /\ Input(c)[n].id \in DOMAIN debugInfo[c]
        /\ debugInfo[c][Input(c)[n].id] =
               GraphOfLines(Input(c), PassedNodes(c))[Input(c)[n].id]

\* C12 as amended: the graph holds exactly the lines the scan has passed
\* that match the metadata-node pattern and not the debug-reference pattern,
\* each under its metaId (a later declaration of the same id replacing an
\* earlier one), under every filter configuration, emitted or not.
C12_PlainNodesDeclared ==
    \A c \in Calls : debugInfo[c] = GraphOfLines(Input(c), PassedPlainNodes(c))

\* C12 witness: with filterIRMetadata the scan is over, the declaration of !1
\* is in the graph and not in the output, and the declaration of !3 that has
\* a debug reference is in the output with its scope and not in the graph.
C12_Witness ==
    \E c \in Calls :
        /\ Scanned(c) /\ args[c].filters.filterIRMetadata
        /\ \E n \in PassedNodes(c) : Input(c)[n] = LBlock1
        /\ Ref("!1") \in DOMAIN debugInfo[c]
        /\ \A n \in 1..Len(scanned[c]) : scanned[c][n].text # LBlock1
        /\ \E n \in 1..Len(scanned[c]) :
              scanned[c][n].text = LFileDbg3 /\ scanned[c][n].scope = Ref("!1")
        /\ Ref("!3") \notin DOMAIN debugInfo[c]

----------------------------------------------------------------------------
(* The directive filter (C13) *)

\* What the scan of call c has emitted so far; origin[c] holds, per emitted
\* line, the input line it came from.
Emitted(c) == IF pc[c] = "scan" THEN result[c] ELSE scanned[c]

\* Input line n of call c has been emitted as it stands, with scope.
EmittedWith(c, n, scope) ==
    \E p \in 1..Len(origin[c]) :
        /\ origin[c][p] = n
        /\ Emitted(c)[p].text = Input(c)[n]
        /\ Emitted(c)[p].scope = scope

\* The directive lines the scan of call c has passed.
PassedDirectives(c) == {n \in Passed(c) : isLineLlvmDirective(Input(c)[n])}

\* No line of seq is a directive line / one without a debug reference.
NoDirective(seq) == \A n \in 1..Len(seq) : ~isLineLlvmDirective(seq[n].text)
NoPlainDirective(seq) ==
    \A n \in 1..Len(seq) :
        isLineLlvmDirective(seq[n].text) => Truthy(DebugReference(seq[n].text))

\* With filterIRMetadata disabled every directive line is emitted.
EmittedWhenDisabled(c) ==
    ~args[c].filters.filterIRMetadata =>
        \A n \in PassedDirectives(c) : EmittedWith(c, n, DebugReference(Input(c)[n]))

\* C13 as stated: with filterIRMetadata no directive line is in the output,
\* with or without a debug reference in it; with it disabled the directive
\* lines are emitted.
C13_AsStated ==
    \A c \in Calls :
        /\ args[c].filters.filterIRMetadata =>
               \A out \in Built(c) \cup {Emitted(c)} : NoDirective(out)
        /\ EmittedWhenDisabled(c)

\* C13 as amended: with filterIRMetadata no directive line without a debug
\* reference is in the output, while a directive line with a debug reference
\* is emitted with that reference as its scope; with the filter disabled
\* every directive line is emitted.
C13_PlainDirectivesDropped ==
    \A c \in Calls :
        /\ args[c].filters.filterIRMetadata =>
               /\ \A out \in Built(c) \cup {Emitted(c)} : NoPlainDirective(out)
               /\ \A n \in PassedDirectives(c) :
                      Truthy(DebugReference(Input(c)[n])) =>
                          EmittedWith(c, n, DebugReference(Input(c)[n]))
        /\ EmittedWhenDisabled(c)

\* C13 witness: a call with filterIRMetadata has returned; of its input the
\* target triple and the declaration of !1 are not in what it returns, and
\* the source_filename line with a debug reference is.
C13_Witness ==
    \E c \in Calls :
        /\ Returns(c) /\ args[c].filters.filterIRMetadata
        /\ \E n, m \in 1..Len(Input(c)) : Input(c)[n] = LTriple /\ Input(c)[m] = LBlock1
        /\ \A n \in 1..Len(ret[c][1]) :
              ret[c][1][n].text.chars \notin {LTriple.chars, LBlock1.chars}
        /\ \E n \in 1..Len(ret[c][1]) :
              /\ ret[c][1][n].text.chars = LSourceDbg.chars
              /\ ret[c][1][n].scope = Ref("!1")

----------------------------------------------------------------------------
(* pickTopIcons (C14) *)

\* C14: on a SponsorsImpl built from any level list, after any number of
\* pickTopIcons calls _nextSet is an integer with 0 <= _nextSet <
\* _iconSets.length, and the k-th call returned
\* _iconSets[(k - 1) mod _iconSets.length], a sponsor array.
C14_CyclicOrder ==
    made = "built" =>
        /\ nextSet # NaN /\ 0 <= nextSet /\ nextSet < Len(iconSets)
        /\ \A n \in 1..Len(picks) :
              picks[n] = Some(iconSets[((n - 1) % Len(iconSets)) + 1])

\* C14 on the instances that have an icon set: there it holds.
C14_WhenSetsExist ==
    (made = "built" /\ Len(iconSets) > 0) =>
        /\ nextSet # NaN /\ 0 <= nextSet /\ nextSet < Len(iconSets)
        /\ nextSet = Len(picks) % Len(iconSets)
        /\ \A n \in 1..Len(picks) :
              picks[n] = Some(iconSets[((n - 1) % Len(iconSets)) + 1])

\* The cycle has come round: more picks than sets, on more than one set.
C14_CycleSeen == made = "built" /\ Len(iconSets) > 1 /\ Len(picks) > Len(iconSets)

====
